---- MODULE Spec2Model ----
(***************************************************************************)
(* Model of package httpretry (base.go): the lazily created shared         *)
(* http.Client, the construction of a request configuration                *)
(* (NewHttpRequest) and the attempt loop behind HttpGet / HttpPost /       *)
(* HttpPatch / HttpPut / HttpDelete (doRequestWithRetries, doRequest),     *)
(* run against the server of the integration test.                         *)
(*                                                                         *)
(* Three specifications share the variables:                               *)
(*   SpecNew    - NewHttpRequest applied to every bounded                  *)
(*                HttpRequestOptions value;                                *)
(*   Spec       - one configuration, one request method call;              *)
(*   SpecClient - goroutines calling GetSingletonHttpClient concurrently.  *)
(***************************************************************************)
EXTENDS Integers, Sequences, FiniteSets, TLC

(***************************************************************************)
(* Bounds of the model.                                                    *)
(***************************************************************************)
\* largest RetriesMax a caller passes in HttpRequestOptions
MaxRetriesOpt == 3
\* largest initial value of the test server's `attempts` counter
MaxAttempts == 3
\* longest payload ([]byte object) passed to HttpPost / HttpPatch / HttpPut
MaxPayload == 1
\* number of goroutines calling GetSingletonHttpClient
NumGoroutines == 3

(***************************************************************************)
(* Program constants.                                                      *)
(***************************************************************************)
DefaultRetriesMax == 10
\* time.Second * 1, in nanoseconds (the unit of time.Duration)
DefaultRetriesWait == 1000000000
StatusOK == 200
StatusTooManyRequests == 429

\* Go's nil for pointers, interfaces (error) and function values.
Nil == [nil |-> TRUE]

VARIABLES
    \* ---- NewHttpRequest
    heap,        \* the http.Header maps that exist: reference i is heap[i], 0 is a nil map
    given,       \* the HttpRequestOptions as the caller passed them (with the map's contents then)
    cfg,         \* the httpRequest value NewHttpRequest returned, Nil before
    prev,        \* given and cfg of the call of NewHttpRequest before the latest, Nil if none
    \* ---- one request method call
    pc,          \* "idle", "ready", "loop", "sleep", "done"
    method,      \* http.MethodGet, ...
    object,      \* the caller's payload
    ctxCanceled, \* the caller's ctx is already canceled when the method is called
    ctxDone,     \* the caller's ctx is canceled by now
    req,         \* the one *http.Request of the call
    retryCount, resp, respBody, err,   \* locals of doRequestWithRetries
    result,      \* what the call handed to its caller: a triple, a panic, Nil while running
    ended,       \* how the call ended: "construction", "response", "exhausted", or "crash"
                 \* when the program ended under it; "" while running
    other,       \* the locals of a second call, on another goroutine, while it does not run
    \* ---- the test server and the history of the call
    attempts0,   \* the server's counter `attempts` when the test starts
    attempts,    \* the server's counter of 429 answers still to give
    srvLast,     \* the response the server wrote last, Nil if none
    idleConn,    \* the client's pool holds an idle connection to the server
    sends,       \* number of client.Do calls of this call
    waits,       \* number of time.Sleep calls of this call
    lastSleep,   \* the duration of the latest time.Sleep, 0 before the first
    allDoErr,    \* every client.Do so far returned an error and no response
    allRetry,    \* IsRetryCondition returned true in every attempt so far
    netFault,    \* the network failed at least once (not the client's own doing)
    last,        \* outcome of the latest attempt
    predArg,     \* the attempt number given to the latest call of IsRetryCondition, 0 if none
    cancelAt,    \* the number of sends made when ctx was canceled during a wait, 0 if it was not
    \* ---- GetSingletonHttpClient
    httpClient,  \* the package variable: 0 is nil, else the identity of an http.Client
    writes,      \* all values stored to httpClient so far, in memory order
    gpc,         \* per goroutine: "check", "create", "return", "done"
    seen,        \* per goroutine: how many of `writes` it has observed at least
    gret         \* per goroutine: the client GetSingletonHttpClient returned, 0 before

vars == <<heap, given, cfg, prev, other, pc, method, object, ctxCanceled, ctxDone, req, retryCount, resp,
          respBody, err, result, ended, attempts0, attempts, srvLast, idleConn, sends,
          waits, lastSleep, allDoErr, allRetry, netFault, last, predArg, cancelAt,
          httpClient, writes, gpc, seen, gret>>

newVars    == <<heap, given, cfg, prev>>
callVars   == <<method, object, ctxCanceled, ctxDone, req, retryCount, resp, respBody, err, result, ended>>
histVars   == <<attempts0, attempts, srvLast, idleConn, sends, waits, lastSleep, allDoErr, allRetry,
                netFault, last, predArg, cancelAt>>
clientVars == <<writes, gpc, seen, gret>>

(***************************************************************************)
(* http.Header: a map from key to a list of values.  Get, Add and Set      *)
(* canonicalize the key they are given; a key written straight into the   *)
(* map is stored as written.                                               *)
(***************************************************************************)
HeaderKeys == {"Accept", "Content-Type", "Authorization", "accept"}
ValueLists == {<<"">>, <<"v1">>, <<"v1", "v2">>}
CallerHeaders == UNION {[S -> ValueLists] : S \in SUBSET HeaderKeys}
EmptyHeader == [k \in {} |-> <<>>]

CanonicalMIMEHeaderKey(k) ==
    CASE k = "accept" -> "Accept"
      [] k = "content-type" -> "Content-Type"
      [] k = "authorization" -> "Authorization"
      [] OTHER -> k

HeaderGet(h, key) ==
    LET k == CanonicalMIMEHeaderKey(key)
    IN  IF k \in DOMAIN h /\ Len(h[k]) > 0 THEN h[k][1] ELSE ""

HeaderAdd(h, key, v) ==
    LET k == CanonicalMIMEHeaderKey(key)
    IN  [x \in DOMAIN h \cup {k} |->
            IF x = k THEN (IF k \in DOMAIN h THEN Append(h[k], v) ELSE <<v>>) ELSE h[x]]

HeaderSet(h, key, v) ==
    LET k == CanonicalMIMEHeaderKey(key)
    IN  [x \in DOMAIN h \cup {k} |-> IF x = k THEN <<v>> ELSE h[x]]

(***************************************************************************)
(* NewHttpRequest.                                                         *)
(***************************************************************************)
URLs == {"absolute", "relative", "malformed"}
Tokens == {"", "tok"}
Predicates == {"nil", "not200", "always", "below2"}

\* lines 129-131 with every non-positive value defaulted
RetriesMaxOrDefaultClamped(n) == IF n <= 0 THEN DefaultRetriesMax ELSE n

\* lines 129-131
RetriesMaxOrDefault(n) == IF n = 0 THEN DefaultRetriesMax ELSE n

\* lines 132-134
RetriesWaitOrDefault(d) == IF d = 0 THEN DefaultRetriesWait ELSE d

\* lines 140-144
WithAccept(h) ==
    IF HeaderGet(h, "Accept") = ""
    THEN HeaderAdd(HeaderAdd(HeaderAdd(h, "Accept", "application/vnd.api+json"),
                             "Accept", "application/json"),
                   "Accept", "*/*")
    ELSE h

\* lines 145-147
WithContentType(h) ==
    IF HeaderGet(h, "Content-Type") = ""
    THEN HeaderSet(h, "Content-Type", "application/vnd.api+json")
    ELSE h

\* lines 148-150
WithAuthorization(h, token) ==
    IF HeaderGet(h, "Authorization") = ""
    THEN HeaderSet(h, "Authorization", "Bearer " \o token)
    ELSE h

\* The options of a call of NewHttpRequest: Header is a reference into heap.
OptionsOver(urls, tokens, headers, maxes, waitsSet, preds) ==
    [URL : urls, Token : tokens, Header : headers, RetriesMax : maxes,
     RetriesWait : waitsSet, IsRetryCondition : preds]

\* lines 128-160.  The map the caller passed is written in place and the
\* configuration keeps a reference to it; a nil map is replaced by a new one.
Construct(options) ==
    LET isNew == options.Header = 0
        ref   == IF isNew THEN Len(heap) + 1 ELSE options.Header
        h0    == IF isNew THEN EmptyHeader ELSE heap[options.Header]
        h3    == WithAuthorization(WithContentType(WithAccept(h0)), options.Token)
    IN  /\ heap' = IF isNew THEN Append(heap, h3) ELSE [heap EXCEPT ![ref] = h3]
        /\ given' = [options |-> options, nilHeader |-> isNew, header |-> h0]
        /\ cfg' = [URL |-> options.URL,
                   Token |-> options.Token,
                   Header |-> ref,
                   RetriesMax |-> RetriesMaxOrDefault(options.RetriesMax),
                   RetriesWait |-> RetriesWaitOrDefault(options.RetriesWait),
                   IsRetryCondition |-> options.IsRetryCondition]

\* the first call of NewHttpRequest
NewHttpRequest(options) ==
    /\ pc = "idle"
    /\ Construct(options)
    /\ pc' = "ready"
    /\ UNCHANGED <<prev, other, callVars, histVars, httpClient, clientVars>>

\* a second call of NewHttpRequest, for another configuration
NewHttpRequestAgain(options) ==
    /\ pc = "ready"
    /\ prev = Nil
    /\ prev' = [given |-> given, cfg |-> cfg]
    /\ Construct(options)
    /\ UNCHANGED <<pc, other, callVars, histVars, httpClient, clientVars>>

(***************************************************************************)
(* GetSingletonHttpClient, lines 40-45.  httpClient is read and written    *)
(* without synchronisation, so the three steps of a goroutine interleave   *)
(* with those of the others, and a read that races with stores may         *)
(* observe any store not older than what the goroutine already observed.   *)
(***************************************************************************)
Goroutines == 1 .. NumGoroutines

\* the value of httpClient after the first n stores
ValueAt(n) == IF n = 0 THEN 0 ELSE writes[n]

\* line 41: load httpClient and compare with nil
ClientCheck(g) ==
    /\ gpc[g] = "check"
    /\ \E n \in seen[g] .. Len(writes) :
          /\ seen' = [seen EXCEPT ![g] = n]
          /\ gpc' = [gpc EXCEPT ![g] = IF ValueAt(n) = 0 THEN "create" ELSE "return"]
    /\ UNCHANGED <<newVars, other, pc, callVars, histVars, httpClient, writes, gret>>

\* line 42: allocate an http.Client and store its address
ClientCreate(g) ==
    /\ gpc[g] = "create"
    /\ writes' = Append(writes, Len(writes) + 1)
    /\ httpClient' = Len(writes) + 1
    /\ seen' = [seen EXCEPT ![g] = Len(writes) + 1]
    /\ gpc' = [gpc EXCEPT ![g] = "return"]
    /\ UNCHANGED <<newVars, other, pc, callVars, histVars, gret>>

\* line 44: load httpClient and return it
ClientReturn(g) ==
    /\ gpc[g] = "return"
    /\ \E n \in seen[g] .. Len(writes) :
          /\ seen' = [seen EXCEPT ![g] = n]
          /\ gret' = [gret EXCEPT ![g] = ValueAt(n)]
    /\ gpc' = [gpc EXCEPT ![g] = "done"]
    /\ UNCHANGED <<newVars, other, pc, callVars, histVars, httpClient, writes>>

\* lines 40-45 run by the one goroutine of a request method call: the client
\* it gets, and the stores to httpClient afterwards
SingletonClient == IF httpClient = 0 THEN Len(writes) + 1 ELSE httpClient
SingletonWrites == IF httpClient = 0 THEN Append(writes, Len(writes) + 1) ELSE writes

(***************************************************************************)
(* The request methods, lines 162-231.                                     *)
(***************************************************************************)
Methods == {"GET", "POST", "PATCH", "PUT", "DELETE"}
Bytes == {1, 2}
Payloads == UNION {[1 .. n -> Bytes] : n \in 0 .. MaxPayload}

Return(body, status, e) == [kind |-> "return", body |-> body, status |-> status, err |-> e]
Panic == [kind |-> "panic"]

\* url.Parse inside http.NewRequest accepts a URL without a scheme,
\* url.ParseRequestURI (line 217) does not.
ParseAlwaysOK(url) == TRUE
ParseOK(url) == url # "malformed"
ParseRequestURIOK(url) == url = "absolute"

\* http.NewRequest over an in-memory reader: the body is read once, its
\* length is fixed in ContentLength and GetBody returns a fresh copy.
NewRequest(m, url, body) ==
    [Method |-> m, URL |-> url, Header |-> 0, Body |-> body,
     ContentLength |-> Len(body), GetBody |-> body]

\* A request method: get the client, build the request, set its header and
\* enter doRequestWithRetries (or return the construction error).
RequestMethod(m, body, canceled, urlOK) ==
    /\ pc = "ready"
    /\ method' = m
    /\ object' = body
    /\ ctxCanceled' = canceled
    /\ ctxDone' = canceled
    /\ httpClient' = SingletonClient
    /\ writes' = SingletonWrites
    /\ IF urlOK
       THEN /\ req' = [NewRequest(m, cfg.URL, body) EXCEPT !.Header = cfg.Header]
            /\ pc' = "loop"
            /\ result' = result
            /\ ended' = ended
       ELSE /\ req' = req
            /\ pc' = "done"
            /\ result' = Return(<<>>, 0, [kind |-> "parse", at |-> 0])
            /\ ended' = "construction"
    /\ UNCHANGED <<newVars, other, retryCount, resp, respBody, err, histVars, gpc, seen, gret>>

\* lines 162-173
HttpGet(canceled) == RequestMethod("GET", <<>>, canceled, ParseOK(cfg.URL))

\* lines 175-186
HttpPost(canceled, body) == RequestMethod("POST", body, canceled, ParseOK(cfg.URL))

\* lines 188-199
HttpPatch(canceled, body) == RequestMethod("PATCH", body, canceled, ParseOK(cfg.URL))

\* lines 201-212
HttpPut(canceled, body) == RequestMethod("PUT", body, canceled, ParseOK(cfg.URL))

\* lines 214-231
HttpDelete(canceled) ==
    RequestMethod("DELETE", <<>>, canceled, ParseRequestURIOK(cfg.URL) /\ ParseOK(cfg.URL))

(***************************************************************************)
(* The server of the integration test: it answers 429 while its counter    *)
(* `attempts` is positive, 200 afterwards, and echoes the request body.    *)
(***************************************************************************)
\* lines 31-36 of the test
HandlerStatus(n) == IF n > 0 THEN StatusTooManyRequests ELSE StatusOK

\* lines 31-34 of the test
HandlerAttempts(n) == IF n > 0 THEN n - 1 ELSE n

(***************************************************************************)
(* doRequestWithRetries, lines 106-126, with doRequest, lines 88-100.      *)
(***************************************************************************)
\* the retry predicates the model configures: none, the one of the test
\* (status is not 200), one that always asks for a retry, and one that
\* decides on the attempt number alone
IsRetryCondition(p, r, n) ==
    CASE p = "not200" -> r.StatusCode # StatusOK
      [] p = "always" -> TRUE
      [] p = "below2" -> n < 2
      [] OTHER        -> FALSE

\* line 110 with the comparison off by one
LoopConditionInclusive(n, max) == n <= max

\* line 110
LoopCondition(n, max) == n < max

\* line 117 comparing the predicate's answer with true
ReturnsOnTrue(p, r, n) == p = "nil" \/ IsRetryCondition(p, r, n) = TRUE

\* line 117
ReturnsResponse(p, r, n) == p = "nil" \/ IsRetryCondition(p, r, n) = FALSE

\* line 118
EarlyResult(r, body, e) == Return(body, r.StatusCode, e)

\* line 125 returning a nil error
ExitResultNoError(r, body, e) == IF r = Nil THEN Panic ELSE Return(body, r.StatusCode, Nil)

\* line 125: resp.StatusCode dereferences resp
ExitResult(r, body, e) == IF r = Nil THEN Panic ELSE Return(body, r.StatusCode, e)

\* The body client.Do has to write.  The request's Body is read once; when
\* it is shorter than ContentLength the transport cannot write the request:
\* on a connection taken from the idle pool it starts over with GetBody, on
\* a new connection client.Do fails.  A connection is idle in the pool after
\* a response was read to its end, if the server keeps it open.
CanWrite(reused) == Len(req.Body) = req.ContentLength \/ reused
Written == IF Len(req.Body) = req.ContentLength THEN req.Body ELSE req.GetBody

\* lines 111-122 once doRequest has returned (r, body, e).  DebugRequest and
\* DebugResponse dump the request and the response and put the bytes they
\* read back, and the request id of line 112 is only logged: none of them
\* changes what is sent or returned.
AfterDoRequest(r, body, e) ==
    LET n        == retryCount + 1
        answered == e = Nil
        returns  == answered /\ ReturnsResponse(cfg.IsRetryCondition, r, n)
        asked    == answered /\ cfg.IsRetryCondition # "nil"
    IN  /\ retryCount' = n
        /\ resp' = r
        /\ respBody' = body
        /\ err' = e
        /\ sends' = sends + 1
        /\ allDoErr' = (allDoErr /\ e # Nil /\ r = Nil)
        /\ allRetry' = (allRetry /\ answered /\ ~returns)
        /\ last' = [kind |-> IF answered THEN "response" ELSE IF r = Nil THEN "doError" ELSE "readError",
                    predicateCalls |-> IF asked THEN 1 ELSE 0,
                    predicateArg |-> IF asked THEN n ELSE 0]
        /\ predArg' = IF asked THEN n ELSE predArg
        /\ IF returns
           THEN /\ pc' = "done"
                /\ result' = EarlyResult(r, body, e)
                /\ ended' = "response"
           ELSE /\ pc' = "sleep"
                /\ result' = result
                /\ ended' = ended
        /\ UNCHANGED <<newVars, other, method, object, ctxCanceled, ctxDone, waits, lastSleep,
                       cancelAt, httpClient, clientVars>>

InLoop == pc = "loop" /\ LoopCondition(retryCount, cfg.RetriesMax)

\* client.Do fails before the request is written (no route, connection
\* refused, TLS failure; always so for a URL without a scheme)
AttemptDoError ==
    /\ InLoop
    /\ AfterDoRequest(Nil, <<>>, [kind |-> "transport", at |-> sends + 1])
    /\ netFault' = TRUE
    /\ idleConn' = FALSE
    /\ UNCHANGED <<req, attempts0, attempts, srvLast>>

\* client.Do fails because the request's Body no longer holds ContentLength bytes
AttemptBodyLengthError ==
    /\ InLoop
    /\ cfg.URL = "absolute"
    /\ ~CanWrite(idleConn)
    /\ AfterDoRequest(Nil, <<>>, [kind |-> "bodyLength", at |-> sends + 1])
    /\ idleConn' = FALSE
    /\ UNCHANGED <<req, attempts0, attempts, srvLast, netFault>>

\* the request reaches the server and the response comes back whole
AttemptResponse ==
    /\ InLoop
    /\ cfg.URL = "absolute"
    /\ CanWrite(idleConn)
    /\ LET status == HandlerStatus(attempts)
           body   == Written
       IN  /\ attempts' = HandlerAttempts(attempts)
           /\ srvLast' = [StatusCode |-> status, body |-> body]
           /\ req' = [req EXCEPT !.Body = <<>>]
           /\ AfterDoRequest([StatusCode |-> status], body, Nil)
    /\ idleConn' \in BOOLEAN
    /\ UNCHANGED <<attempts0, netFault>>

\* the response arrives but io.ReadAll fails after k bytes of its body
AttemptReadError ==
    /\ InLoop
    /\ cfg.URL = "absolute"
    /\ CanWrite(idleConn)
    /\ LET status == HandlerStatus(attempts)
           body   == Written
       IN  /\ attempts' = HandlerAttempts(attempts)
           /\ srvLast' = [StatusCode |-> status, body |-> body]
           /\ req' = [req EXCEPT !.Body = <<>>]
           /\ \E k \in 0 .. Len(body) :
                 AfterDoRequest([StatusCode |-> status], SubSeq(body, 1, k),
                                [kind |-> "read", at |-> sends + 1])
    /\ idleConn' = FALSE
    /\ netFault' = TRUE
    /\ UNCHANGED attempts0

\* the request reaches the server but the connection breaks before the
\* response: client.Do returns an error and no response
AttemptResponseLost ==
    /\ InLoop
    /\ cfg.URL = "absolute"
    /\ CanWrite(idleConn)
    /\ attempts' = HandlerAttempts(attempts)
    /\ srvLast' = [StatusCode |-> HandlerStatus(attempts), body |-> Written]
    /\ req' = [req EXCEPT !.Body = <<>>]
    /\ AfterDoRequest(Nil, <<>>, [kind |-> "transport", at |-> sends + 1])
    /\ idleConn' = FALSE
    /\ netFault' = TRUE
    /\ UNCHANGED attempts0

\* line 122 with a wait of one second whatever the configuration says
SleepDurationFixed(c, canceled) == DefaultRetriesWait

\* line 122 with a wait that ends at once when ctx is canceled
SleepDurationCancellable(c, canceled) == IF canceled THEN 0 ELSE c.RetriesWait

\* line 122: time.Sleep(r.RetriesWait) does not look at ctx
SleepDuration(c, canceled) == c.RetriesWait

\* line 122
Sleep ==
    /\ pc = "sleep"
    /\ waits' = waits + 1
    /\ lastSleep' = SleepDuration(cfg, ctxDone)
    /\ pc' = "loop"
    /\ UNCHANGED <<newVars, other, callVars, attempts0, attempts, srvLast, idleConn, sends, allDoErr,
                   allRetry, netFault, last, predArg, cancelAt, httpClient, clientVars>>

\* The caller cancels ctx while the call runs.  The call's goroutine does not
\* select on ctx.Done(): line 112 derives a context that line 113 hands to
\* doRequest, which passes it to the two Debug functions only, and the
\* request (http.NewRequest) carries no context.
Cancel ==
    /\ pc \in {"loop", "sleep"}
    /\ ~ctxDone
    /\ ctxDone' = TRUE
    /\ cancelAt' = IF pc = "sleep" THEN sends ELSE cancelAt
    /\ UNCHANGED <<newVars, other, pc, method, object, ctxCanceled, req, retryCount, resp, respBody,
                   err, result, ended, attempts0, attempts, srvLast, idleConn, sends, waits,
                   lastSleep, allDoErr, allRetry, netFault, last, predArg, httpClient,
                   clientVars>>

\* A panic that no deferred function of its goroutine recovers ends the
\* program, and with it a call that runs on another goroutine.
Terminated(l) == [l EXCEPT !.pc = "done", !.ended = "crash"]

\* line 125.  The package recovers from no panic; the caller's goroutine may.
Exit ==
    /\ pc = "loop"
    /\ ~LoopCondition(retryCount, cfg.RetriesMax)
    /\ result' = ExitResult(resp, respBody, err)
    /\ ended' = "exhausted"
    /\ pc' = "done"
    /\ other' \in IF /\ ExitResult(resp, respBody, err) = Panic
                     /\ other # Nil
                     /\ other.pc \in {"loop", "sleep"}
                  THEN {other, Terminated(other)}
                  ELSE {other}
    /\ UNCHANGED <<newVars, method, object, ctxCanceled, ctxDone, req, retryCount, resp,
                   respBody, err, histVars, httpClient, clientVars>>

(***************************************************************************)
(* Two calls on two goroutines.  doRequestWithRetries has a value receiver *)
(* and declares resp and retryCount itself (lines 106-108), and each       *)
(* request method builds its own request: all of them live in the frame of *)
(* the goroutine that runs the call.  The model runs one call in the       *)
(* variables of the call and keeps the other one's frame in `other`; the   *)
(* scheduler may exchange the two at any step.  The server, the            *)
(* connection pool and httpClient are shared.                              *)
(***************************************************************************)
Locals ==
    [pc |-> pc, cfg |-> cfg, method |-> method, object |-> object,
     ctxCanceled |-> ctxCanceled, ctxDone |-> ctxDone, req |-> req,
     retryCount |-> retryCount, resp |-> resp, respBody |-> respBody, err |-> err,
     result |-> result, ended |-> ended, sends |-> sends, waits |-> waits,
     lastSleep |-> lastSleep, allDoErr |-> allDoErr, allRetry |-> allRetry,
     last |-> last, predArg |-> predArg, cancelAt |-> cancelAt]

\* a second caller calls a request method on a copy of the latest
\* configuration or of the one built before
Fork ==
    /\ pc = "ready"
    /\ other = Nil
    /\ \E c \in {cfg} \cup (IF prev = Nil THEN {} ELSE {prev.cfg}) :
          other' = [Locals EXCEPT !.cfg = c]
    /\ UNCHANGED <<heap, given, cfg, prev, pc, callVars, histVars, httpClient, clientVars>>

\* the scheduler runs the other goroutine
Switch ==
    /\ other # Nil
    /\ LET r == other
       IN  /\ pc' = r.pc /\ cfg' = r.cfg /\ method' = r.method /\ object' = r.object
           /\ ctxCanceled' = r.ctxCanceled /\ ctxDone' = r.ctxDone /\ req' = r.req
           /\ retryCount' = r.retryCount /\ resp' = r.resp /\ respBody' = r.respBody
           /\ err' = r.err /\ result' = r.result /\ ended' = r.ended
           /\ sends' = r.sends /\ waits' = r.waits /\ lastSleep' = r.lastSleep
           /\ allDoErr' = r.allDoErr /\ allRetry' = r.allRetry /\ last' = r.last
           /\ predArg' = r.predArg /\ cancelAt' = r.cancelAt
    /\ other' = Locals
    /\ UNCHANGED <<heap, given, prev, attempts0, attempts, srvLast, idleConn, netFault,
                   httpClient, clientVars>>

(***************************************************************************)
(* The specifications.                                                     *)
(***************************************************************************)
InitCall ==
    /\ pc = "idle"
    /\ method = "" /\ object = <<>> /\ ctxCanceled = FALSE /\ ctxDone = FALSE /\ cancelAt = 0
    /\ req = Nil /\ retryCount = 0 /\ resp = Nil /\ respBody = <<>> /\ err = Nil
    /\ result = Nil /\ ended = "" /\ other = Nil
    /\ srvLast = Nil /\ idleConn = FALSE /\ sends = 0 /\ waits = 0 /\ lastSleep = 0 /\ predArg = 0
    /\ allDoErr = TRUE /\ allRetry = TRUE /\ netFault = FALSE
    /\ last = [kind |-> "none", predicateCalls |-> 0, predicateArg |-> 0]

InitClient ==
    /\ httpClient = 0 /\ writes = <<>>
    /\ gpc = [g \in Goroutines |-> "check"]
    /\ seen = [g \in Goroutines |-> 0]
    /\ gret = [g \in Goroutines |-> 0]

\* ---- Spec: one configuration built without a header map, one call
Init ==
    /\ heap = <<>> /\ given = Nil /\ cfg = Nil /\ prev = Nil
    /\ attempts0 \in 0 .. MaxAttempts
    /\ attempts = attempts0
    /\ InitCall
    /\ InitClient

CallOptions ==
    OptionsOver(URLs, {""}, {0}, -1 .. MaxRetriesOpt, {0, 5}, Predicates)

New == \E options \in CallOptions : NewHttpRequest(options)

Get == \E c \in BOOLEAN : HttpGet(c)
Post == \E c \in BOOLEAN, b \in Payloads : HttpPost(c, b)
Patch == \E c \in BOOLEAN, b \in Payloads : HttpPatch(c, b)
Put == \E c \in BOOLEAN, b \in Payloads : HttpPut(c, b)
Delete == \E c \in BOOLEAN : HttpDelete(c)

Next ==
    \/ New
    \/ Get \/ Post \/ Patch \/ Put \/ Delete
    \/ AttemptDoError \/ AttemptBodyLengthError \/ AttemptResponse
    \/ AttemptReadError \/ AttemptResponseLost
    \/ Sleep
    \/ Exit

Spec == Init /\ [][Next]_vars

\* ---- SpecCancel: one call on a configuration with a valid URL, whose
\* caller may cancel ctx at any moment of the call
CancelOptions ==
    OptionsOver({"absolute"}, {""}, {0}, 1 .. MaxRetriesOpt, {0, 5}, Predicates)

NewCancel == \E options \in CancelOptions : NewHttpRequest(options)

NextCancel ==
    \/ NewCancel
    \/ Get \/ Post \/ Patch \/ Put \/ Delete
    \/ AttemptDoError \/ AttemptBodyLengthError \/ AttemptResponse
    \/ AttemptReadError \/ AttemptResponseLost
    \/ Sleep
    \/ Cancel
    \/ Exit

SpecCancel == Init /\ [][NextCancel]_vars

\* ---- SpecNew: NewHttpRequest on every bounded options value
InitNew ==
    /\ heap \in {<<>>} \cup {<<h>> : h \in CallerHeaders}
    /\ given = Nil /\ cfg = Nil /\ prev = Nil
    /\ attempts0 = 0
    /\ attempts = 0
    /\ InitCall
    /\ InitClient

AllOptions ==
    OptionsOver(URLs, Tokens, 0 .. Len(heap), -1 .. MaxRetriesOpt, {0, 5}, Predicates)

NextNew == \E options \in AllOptions : NewHttpRequest(options)

SpecNew == InitNew /\ [][NextNew]_vars

\* ---- SpecTwo: two configurations built one after the other, from the same
\* header map or not, with the same token or not
TwoTokens == {"tokA", "tokB"}

TwoOptions ==
    OptionsOver({"absolute"}, TwoTokens, 0 .. Len(heap), {0, 2}, {0}, {"nil"})

NewFirst == \E options \in TwoOptions : NewHttpRequest(options)

NewSecond == \E options \in TwoOptions : NewHttpRequestAgain(options)

NextTwo == NewFirst \/ NewSecond

SpecTwo == InitNew /\ [][NextTwo]_vars

\* ---- SpecPair: two calls that run at the same time, on one configuration
\* or on two
InitPair ==
    /\ heap = <<>> /\ given = Nil /\ cfg = Nil /\ prev = Nil
    /\ attempts0 \in 0 .. 1
    /\ attempts = attempts0
    /\ InitCall
    /\ InitClient

PairOptions ==
    OptionsOver({"absolute"}, {""}, {0}, 1 .. 2, {5}, {"nil", "not200"})

NewPair == \E options \in PairOptions : NewHttpRequest(options)

NewPairAgain == \E options \in PairOptions : NewHttpRequestAgain(options)

GetPair == HttpGet(FALSE)

PostPair == \E b \in Payloads : HttpPost(FALSE, b)

NextPair ==
    \/ NewPair \/ NewPairAgain
    \/ Fork
    \/ GetPair \/ PostPair
    \/ AttemptDoError \/ AttemptBodyLengthError \/ AttemptResponse
    \/ Sleep
    \/ Exit
    \/ Switch

SpecPair == InitPair /\ [][NextPair]_vars

\* ---- SpecClient: goroutines racing in GetSingletonHttpClient
InitSingleton ==
    /\ heap = <<>> /\ given = Nil /\ cfg = Nil /\ prev = Nil
    /\ attempts0 = 0
    /\ attempts = 0
    /\ InitCall
    /\ InitClient

NextClient ==
    \E g \in Goroutines : ClientCheck(g) \/ ClientCreate(g) \/ ClientReturn(g)

SpecClient == InitSingleton /\ [][NextClient]_vars

(***************************************************************************)
(* The claims.                                                             *)
(***************************************************************************)
BodyMethods == {"POST", "PATCH", "PUT"}

\* the call went through doRequestWithRetries and has ended
LoopEnded == pc = "done" /\ req # Nil

\* C1: with RetriesMax = N >= 1, when every client.Do returns an error and
\* no response, the call performs exactly N sends and returns the error of
\* the N-th attempt with status code 0.
C1_AllSendsFailReturnsLastError ==
    (LoopEnded /\ cfg.RetriesMax >= 1 /\ allDoErr) =>
        /\ sends = cfg.RetriesMax
        /\ result.kind = "return"
        /\ result.status = 0
        /\ result.err # Nil
        /\ result.err.at = cfg.RetriesMax

\* C2: whatever the outcomes of the attempts, a call ends by returning a
\* (body, status, error) triple and no run-time failure escapes it; stated
\* here for RetriesMax >= 1 and calls in which some attempt received a
\* response, the case the claim singles out.
C2_CallReturnsTriple ==
    (LoopEnded /\ cfg.RetriesMax >= 1 /\ ~allDoErr) => result.kind = "return"

\* C3: with the predicate "status is not 200" and RetriesMax = N, against a
\* server that answers its first K < N requests with a non-200 status and
\* the later ones with 200 (and a network that does not fail), the call
\* performs exactly K+1 sends and returns the body and the status 200 of
\* the (K+1)-th response with a nil error.
C3_RetriesUntilOK ==
    (LoopEnded /\ cfg.IsRetryCondition = "not200" /\ attempts0 < cfg.RetriesMax /\ ~netFault) =>
        /\ sends = attempts0 + 1
        /\ srvLast # Nil
        /\ srvLast.StatusCode = StatusOK
        /\ result = Return(srvLast.body, StatusOK, Nil)

\* C4: for HttpPost, HttpPut and HttpPatch the request presents the complete
\* payload of the caller at the start of every attempt, never an already
\* consumed or empty body.
C4_EveryAttemptPresentsPayload ==
    (InLoop /\ method \in BodyMethods) => req.Body = object

\* C5: with RetriesMax = N >= 1, when every attempt receives a response and
\* the retry predicate returns true in every attempt, the call performs
\* exactly N sends and returns the body and status of the N-th response
\* with a nil error.
C5_ExhaustionReturnsLastResponse ==
    (LoopEnded /\ cfg.RetriesMax >= 1 /\ allRetry) =>
        /\ sends = cfg.RetriesMax
        /\ srvLast # Nil
        /\ result = Return(srvLast.body, srvLast.StatusCode, Nil)

C5_Witness ==
    /\ LoopEnded /\ allRetry
    /\ cfg.RetriesMax = 3 /\ sends = 3
    /\ method = "POST" /\ Len(object) > 0
    /\ result = Return(object, StatusTooManyRequests, Nil)

\* C6: an attempt that receives a response (doRequest returns no error) with
\* no retry predicate configured, or with the predicate false for that
\* response and attempt number, ends the call at once with that response's
\* body and status and a nil error: the attempt is the last send, and only
\* the earlier attempts were followed by a wait.
PredicateQuiet ==
    \/ cfg.IsRetryCondition = "nil"
    \/ ~IsRetryCondition(cfg.IsRetryCondition, resp, retryCount)

C6_ResponseWithoutRetryReturns ==
    (pc \in {"loop", "sleep", "done"} /\ last.kind = "response" /\ PredicateQuiet) =>
        /\ pc = "done"
        /\ result = Return(srvLast.body, srvLast.StatusCode, Nil)
        /\ sends = retryCount
        /\ waits = sends - 1
        /\ ~ENABLED Next

C6_Witness ==
    /\ pc = "done" /\ last.kind = "response"
    /\ cfg.IsRetryCondition = "below2"
    /\ retryCount = 2 /\ sends = 2 /\ waits = 1
    /\ result.status = StatusTooManyRequests

\* C7: when the context is already canceled as the method is called, the
\* first attempt fails: it does not receive a response.
C7_CanceledContextFailsFirstSend ==
    (ctxCanceled /\ retryCount = 1) => last.kind # "response"

\* C8: every call of GetSingletonHttpClient returns the same client, for
\* every interleaving of the callers, and at most one client is created.
C8_OneClient ==
    /\ \A g, h \in Goroutines :
          (gpc[g] = "done" /\ gpc[h] = "done") => gret[g] = gret[h]
    /\ Len(writes) <= 1

\* C9: every configuration NewHttpRequest builds, also from a negative
\* RetriesMax, has RetriesMax >= 1, so a request method call on it performs
\* at least one send.
C9_RetriesMaxPositive ==
    /\ cfg # Nil => cfg.RetriesMax >= 1
    /\ LoopEnded => sends >= 1

\* C10: for each of Accept, Content-Type and Authorization the configuration
\* holds exactly the caller's values when the caller supplied the header,
\* and the default when the caller did not.
DefaultHeader(key, token) ==
    CASE key = "Accept" -> <<"application/vnd.api+json", "application/json", "*/*">>
      [] key = "Content-Type" -> <<"application/vnd.api+json">>
      [] key = "Authorization" -> <<"Bearer " \o token>>

C10_HeadersKeptOrDefaulted ==
    cfg # Nil =>
        \A key \in {"Accept", "Content-Type", "Authorization"} :
            /\ key \in DOMAIN heap[cfg.Header]
            /\ heap[cfg.Header][key] =
                  IF ~given.nilHeader /\ key \in DOMAIN given.header
                  THEN given.header[key]
                  ELSE DefaultHeader(key, given.options.Token)

\* C11: when building the request fails (a malformed URL; for HttpDelete also
\* a URL that is no request URI), the method returns at once an empty body,
\* status code 0 and the construction error, with no send and no wait.
ConstructionFails ==
    cfg.URL = "malformed" \/ (cfg.URL = "relative" /\ method = "DELETE")

C11_ConstructionErrorReturnsAtOnce ==
    (pc \in {"loop", "sleep", "done"} /\ ConstructionFails) =>
        /\ pc = "done"
        /\ result.kind = "return"
        /\ result.body = <<>>
        /\ result.status = 0
        /\ result.err # Nil
        /\ result.err.kind = "parse"
        /\ sends = 0
        /\ waits = 0
        /\ ~ENABLED Next

C11_Witness ==
    /\ pc = "done" /\ cfg.URL = "malformed" /\ method = "POST" /\ Len(object) > 0
    /\ result.status = 0 /\ result.err # Nil /\ sends = 0

\* C12: NewHttpRequest sets RetriesMax to 10 and RetriesWait to one second
\* when the option is zero, and keeps every non-zero RetriesMax and
\* RetriesWait, and URL, Token and IsRetryCondition, as the caller gave them.
C12_DefaultsAndKeptOptions ==
    cfg # Nil =>
        /\ cfg.RetriesMax = IF given.options.RetriesMax = 0 THEN 10 ELSE given.options.RetriesMax
        /\ cfg.RetriesWait =
              IF given.options.RetriesWait = 0 THEN 1000000000 ELSE given.options.RetriesWait
        /\ cfg.URL = given.options.URL
        /\ cfg.Token = given.options.Token
        /\ cfg.IsRetryCondition = given.options.IsRetryCondition

C12_Witness ==
    /\ cfg # Nil
    /\ given.options.RetriesMax = 0 /\ cfg.RetriesMax = 10
    /\ given.options.RetriesWait = 5 /\ cfg.RetriesWait = 5
    /\ cfg.Token = "tok" /\ cfg.IsRetryCondition = "not200"

\* C13: the retry predicate is not evaluated in an attempt whose send failed
\* and is evaluated exactly once in an attempt that received a response; the
\* number it is given is the 1-based index of the attempt, so the numbers
\* given over a call increase strictly and lie in 1..RetriesMax.
C13_PredicateCalls ==
    [][sends' = sends + 1 =>
          /\ last'.kind # "response" => (last'.predicateCalls = 0 /\ predArg' = predArg)
          /\ (last'.kind = "response" /\ cfg.IsRetryCondition # "nil") =>
                /\ last'.predicateCalls = 1
                /\ last'.predicateArg = sends'
                /\ predArg' = sends'
                /\ predArg' > predArg
                /\ predArg' \in 1 .. cfg.RetriesMax]_vars

C13_Witness ==
    /\ last.kind = "response" /\ last.predicateCalls = 1
    /\ predArg = 3 /\ sends = 3 /\ netFault /\ ~allDoErr /\ ~allRetry
    /\ cfg.IsRetryCondition = "not200"

\* C14: every call returns after at most RetriesMax sends, whatever the
\* outcomes of its attempts, and the attempt counter never exceeds
\* RetriesMax.
C14_BoundedAttempts ==
    /\ cfg # Nil => (retryCount <= cfg.RetriesMax /\ sends <= cfg.RetriesMax)
    /\ pc = "done" => result.kind = "return"

\* C15: one wait of RetriesWait follows every attempt that does not return
\* and none follows the attempt that returns: between two attempts there is
\* exactly one wait, and a call that exhausts its N attempts has waited N
\* times, the last time after the final attempt.
C15_OneWaitPerFailedAttempt ==
    /\ pc = "loop" => waits = sends
    /\ pc = "sleep" => waits = sends - 1
    /\ ended = "response" => waits = sends - 1
    /\ ended = "exhausted" => (waits = sends /\ (cfg.RetriesMax >= 1 => waits = cfg.RetriesMax))
    /\ waits > 0 => lastSleep = cfg.RetriesWait

C15_Witness ==
    /\ ended = "exhausted" /\ cfg.RetriesMax = 3 /\ sends = 3 /\ waits = 3
    /\ cfg.RetriesWait = 5 /\ lastSleep = 5

\* C16: when a call returns because its attempts are exhausted, the body,
\* the status code and the error it returns are those of the final attempt.
IsPrefix(a, b) == Len(a) <= Len(b) /\ a = SubSeq(b, 1, Len(a))

C16_ExhaustionReturnsFinalAttempt ==
    (ended = "exhausted" /\ result.kind = "return") =>
        /\ last.kind \in {"response", "readError"}
        /\ srvLast # Nil
        /\ result.status = srvLast.StatusCode
        /\ last.kind = "response" => (result.body = srvLast.body /\ result.err = Nil)
        /\ last.kind = "readError" =>
              /\ IsPrefix(result.body, srvLast.body)
              /\ result.err # Nil
              /\ result.err.kind = "read"
              /\ result.err.at = sends

C16_Witness ==
    /\ ended = "exhausted" /\ result.kind = "return"
    /\ last.kind = "readError" /\ sends = 2 /\ attempts0 = 1
    /\ result.status = StatusOK /\ result.err.at = 2

\* C17: once ctx is canceled, a call that is waiting takes the whole wait: its
\* next step is the end of a time.Sleep of RetriesWait, it has not returned,
\* and from the head of the loop with attempts remaining its next step is a
\* send.
C17_CancelDoesNotCutWait ==
    [][/\ (ctxDone /\ pc = "sleep") =>
              /\ pc' = "loop"
              /\ waits' = waits + 1
              /\ lastSleep' = cfg.RetriesWait
              /\ result' = Nil /\ retryCount' = retryCount
       /\ (ctxDone /\ pc = "loop" /\ retryCount < cfg.RetriesMax) =>
              /\ sends' = sends + 1
              /\ retryCount' = retryCount + 1
              /\ ended' # "exhausted"]_vars

\* ctx was canceled during the wait after the first send; the wait was of
\* the configured 5 ns and a second send followed.
C17_Witness ==
    /\ cancelAt = 1 /\ ~ctxCanceled /\ ctxDone
    /\ cfg.RetriesWait = 5 /\ lastSleep = 5
    /\ waits >= 1 /\ sends = 2

\* the two configurations were built from the one map the caller supplied,
\* which held no Authorization, and with different tokens
SameMapTwoTokens ==
    /\ prev # Nil
    /\ ~given.nilHeader /\ ~prev.given.nilHeader
    /\ given.options.Header = prev.given.options.Header
    /\ "Authorization" \notin DOMAIN prev.given.header
    /\ cfg.Token # prev.cfg.Token

\* C18: NewHttpRequest leaves the map the caller supplied as it was and the
\* configuration does not refer to it; two configurations built from the same
\* map without Authorization and with different tokens both have
\* Authorization = "Bearer " + their own token.
C18_NoSharedHeaderState ==
    /\ (given # Nil /\ ~given.nilHeader) =>
           /\ heap[given.options.Header] = given.header
           /\ cfg.Header # given.options.Header
    /\ SameMapTwoTokens =>
           /\ heap[cfg.Header]["Authorization"] = <<"Bearer " \o cfg.Token>>
           /\ heap[prev.cfg.Header]["Authorization"] = <<"Bearer " \o prev.cfg.Token>>

\* the configuration c is as NewHttpRequest built it from the options of g
AsBuilt(c, g) ==
    /\ c.URL = g.options.URL
    /\ c.RetriesMax = g.options.RetriesMax
    /\ c.RetriesWait = g.options.RetriesWait
    /\ c.IsRetryCondition = g.options.IsRetryCondition
    /\ heap[c.Header] =
          WithAuthorization(WithContentType(WithAccept(EmptyHeader)), g.options.Token)

\* the call with the frame l counts its own sends, makes no more of them
\* than its configuration allows, ends by its own return statement with
\* what its own last attempt gave, and its configuration is as it was built
OwnLoop(l) ==
    /\ l.retryCount = l.sends
    /\ l.sends <= l.cfg.RetriesMax
    /\ l.pc = "done" =>
          \/ /\ l.ended = "response"
             /\ l.last.kind = "response"
             /\ l.result = Return(l.respBody, l.resp.StatusCode, Nil)
          \/ /\ l.ended = "exhausted"
             /\ l.sends = l.cfg.RetriesMax
             /\ l.result = IF l.last.kind = "response"
                           THEN Return(l.respBody, l.resp.StatusCode, Nil)
                           ELSE Panic
    /\ AsBuilt(l.cfg, given) \/ (prev # Nil /\ AsBuilt(l.cfg, prev.given))

\* C19: of two calls that run at the same time, on one configuration or on
\* two, each runs a loop of its own: its counter counts its own sends, how
\* it ends follows from its own attempts alone, and the configurations stay
\* as they were built.
C19_IndependentLoops ==
    other # Nil => (OwnLoop(Locals) /\ OwnLoop(other))

====
